---- MODULE Spec2Model ----
(***************************************************************************)
(* Maturity-analysis engine of report_generator                            *)
(* (webapp/backend/services/maturity_analysis_processor.py) and the job    *)
(* table, background tasks and endpoints that run it (webapp/backend/      *)
(* app.py).                                                                *)
(*                                                                         *)
(* Representation.                                                         *)
(*  - A spreadsheet cell is a tagged record: NaN (empty cell, which pandas *)
(*    reads as float nan), a string, a number or a date.                   *)
(*  - Amounts are integers (floats holding whole amounts add exactly).     *)
(*  - An exchange rate is a fraction num/den; a target-currency amount is  *)
(*    the fraction amount*num / den, so 1000 * 1.2 is 6000/5 = 1200.       *)
(*  - A defaultdict(float) is a function on the keys touched so far, read  *)
(*    with default 0.  contract_info is an insertion-ordered dict: the     *)
(*    sequence of its keys plus the function key -> info.                  *)
(***************************************************************************)
EXTENDS Integers, Sequences, FiniteSets, TLC

VARIABLES
    df,             \* rows of the source table (pd.read_excel result)
    columns,        \* column names of the source table
    source_ok,      \* the source file can be read
    dest_ok,        \* the output path can be written
    report_year,    \* run parameter
    report_month,   \* run parameter
    exchange_rate,  \* run parameter (fraction)
    pc,             \* position inside process_file
    idx,            \* 1-based position of df.iterrows() in _process_rows
    aggregator,     \* self.aggregator of the processor instance
    contracts_included, \* return value of _generate_output
    output_file,    \* data rows of the workbook at output_file_path
    exc,            \* exception in flight inside the try block
    result,         \* value returned by process_file
    run,            \* 1 for the first call of process_file on the instance, 2 for the second
    prev,           \* what the first call left (result, aggregator, file) and ran with
    call,           \* application of a pure function: its arguments and value
    jobs,           \* app.py: the job table, job id -> JobStatus
    tasks,          \* app.py: the background task of each job id and its locals
    files,          \* output files in the upload directory, job id -> file
    loop,           \* the coroutine the event loop is running, or "idle"
    now,            \* the wall clock, seconds
    response        \* the last HTTP response sent

\* the state of the web application (app.py)
appVars == <<jobs, tasks, files, loop, now, response>>

vars == <<df, columns, source_ok, dest_ok, report_year, report_month,
          exchange_rate, pc, idx, aggregator, contracts_included, output_file,
          exc, result, run, prev, call, jobs, tasks, files, loop, now,
          response>>

coreVars == <<df, columns, source_ok, dest_ok, report_year, report_month,
              exchange_rate, pc, idx, aggregator, contracts_included,
              output_file, exc, result, run, prev>>

-----------------------------------------------------------------------------
(* Bounds of the model *)

\* longest source table
MaxRows == 2
\* payment dates of the bucketing check reach this many years past FirstYear
YearSpan == 8
\* start and end dates of the term check lie in FirstYear .. FirstYear + TermYears
TermYears == 1

-----------------------------------------------------------------------------
(* Cells and Python values *)

None == [t |-> "None"]
NaN == [t |-> "nan"]
Str(s) == [t |-> "str", v |-> s]
Num(n) == [t |-> "num", v |-> n]
Date(y, m, d) == [t |-> "date", v |-> [year |-> y, month |-> m, day |-> d]]

\* pd.isna(value) for a scalar
isna(value) == value.t \in {"nan", "None"}

\* str(value) for the values an id or currency cell holds (a string, a
\* number, an empty cell): str(float('nan')) is 'nan'
str(value) == IF value.t = "str" THEN value.v
              ELSE IF value.t = "num" THEN ToString(value.v)
              ELSE IF value.t = "nan" THEN "nan"
              ELSE "None"

\* the sign kept
Abs_signed(n) == n

Abs(n) == IF n < 0 THEN -n ELSE n

\* the default taken to be 1.0
safe_float_unit_default(value) ==
    IF isna(value) THEN 1
    ELSE IF value.t = "num" THEN value.v
    ELSE 1

\* float(value) fails on a string that is no numeral (the only strings the
\* tables of this model hold) and the default is returned
safe_float(value) ==
    IF isna(value) THEN 0
    ELSE IF value.t = "num" THEN value.v
    ELSE 0

\* pd.to_datetime(value) fails on a string that is no date (the only
\* strings the date columns of this model hold) and None is returned
parse_date(value) ==
    IF isna(value) THEN None
    ELSE IF value.t = "date" THEN value
    ELSE None

-----------------------------------------------------------------------------
(* calculate_period_bucket *)

\* the difference taken from the payment date back to the report date
months_diff_reversed(payment_date, ry, rm) ==
    (ry - payment_date.year) * 12 + (rm - payment_date.month)

months_diff(payment_date, ry, rm) ==
    (payment_date.year - ry) * 12 + (payment_date.month - rm)

\* the thresholds compared with < instead of <=
calculate_period_bucket_strict(payment_date, ry, rm) ==
    LET md == months_diff(payment_date, ry, rm) IN
    IF md < 0 THEN "skip"
    ELSE IF md < 12 THEN "year1"
    ELSE IF md < 24 THEN "year2"
    ELSE IF md < 36 THEN "year3"
    ELSE IF md < 48 THEN "year4"
    ELSE IF md < 60 THEN "year5"
    ELSE IF md < 72 THEN "year6"
    ELSE "thereafter"

calculate_period_bucket(payment_date, ry, rm) ==
    LET md == months_diff(payment_date, ry, rm) IN
    IF md <= 0 THEN "skip"
    ELSE IF md <= 12 THEN "year1"
    ELSE IF md <= 24 THEN "year2"
    ELSE IF md <= 36 THEN "year3"
    ELSE IF md <= 48 THEN "year4"
    ELSE IF md <= 60 THEN "year5"
    ELSE IF md <= 72 THEN "year6"
    ELSE "thereafter"

-----------------------------------------------------------------------------
(* Calendar arithmetic used by calculate_term: datetime, timedelta and     *)
(* dateutil's relativedelta, on dates without a time of day                *)

IsLeap(y) == (y % 4 = 0 /\ y % 100 # 0) \/ y % 400 = 0

\* calendar.monthrange(y, m)[1]
DaysInMonth(y, m) ==
    IF m = 2 THEN (IF IsLeap(y) THEN 29 ELSE 28)
    ELSE IF m \in {4, 6, 9, 11} THEN 30
    ELSE 31

RECURSIVE DaysBeforeMonth(_, _)
DaysBeforeMonth(y, m) ==
    IF m <= 1 THEN 0 ELSE DaysBeforeMonth(y, m - 1) + DaysInMonth(y, m - 1)

\* date.toordinal()
toordinal(dt) ==
    LET y == dt.year - 1 IN
    365 * y + (y \div 4) - (y \div 100) + (y \div 400)
        + DaysBeforeMonth(dt.year, dt.month) + dt.day

\* dt + timedelta(days=1)
PlusOneDay(dt) ==
    IF dt.day < DaysInMonth(dt.year, dt.month)
    THEN [dt EXCEPT !.day = dt.day + 1]
    ELSE IF dt.month < 12
    THEN [year |-> dt.year, month |-> dt.month + 1, day |-> 1]
    ELSE [year |-> dt.year + 1, month |-> 1, day |-> 1]

\* dt + relativedelta(months=n): relativedelta._set_months splits n into years
\* and months of the same sign, __radd__ adds them and clamps the day
PlusMonths(dt, n) ==
    LET s == IF n < 0 THEN -1 ELSE 1
        years == s * ((n * s) \div 12)
        months == s * ((n * s) % 12)
        y0 == dt.year + years
        m0 == dt.month + months
        y1 == IF m0 > 12 THEN y0 + 1 ELSE IF m0 < 1 THEN y0 - 1 ELSE y0
        m1 == IF m0 > 12 THEN m0 - 12 ELSE IF m0 < 1 THEN m0 + 12 ELSE m0
        last == DaysInMonth(y1, m1)
    IN [year |-> y1, month |-> m1, day |-> IF dt.day < last THEN dt.day ELSE last]

\* the while loop of relativedelta.__init__(dt1, dt2): move the month count
\* towards zero until dt2 + months no longer overshoots dt1
RECURSIVE SettleMonths(_, _, _)
SettleMonths(dt1, dt2, months) ==
    LET dtm == PlusMonths(dt2, months) IN
    IF toordinal(dt1) < toordinal(dt2)
    THEN IF toordinal(dt1) > toordinal(dtm)
         THEN SettleMonths(dt1, dt2, months + 1) ELSE months
    ELSE IF toordinal(dt1) < toordinal(dtm)
         THEN SettleMonths(dt1, dt2, months - 1) ELSE months

\* relativedelta(dt1, dt2) as <<years * 12 + months, days>>
relativedelta(dt1, dt2) ==
    LET months == SettleMonths(dt1, dt2,
                      (dt1.year - dt2.year) * 12 + (dt1.month - dt2.month))
    IN <<months, toordinal(dt1) - toordinal(PlusMonths(dt2, months))>>

\* the difference taken to end_date itself, without the added day
calculate_term_exclusive(start_date, end_date) ==
    IF isna(start_date) \/ isna(end_date) THEN <<0, 0>>
    ELSE relativedelta(end_date.v, start_date.v)

\* start_date, end_date: None or a date value (the results of parse_date)
calculate_term(start_date, end_date) ==
    IF isna(start_date) \/ isna(end_date) THEN <<0, 0>>
    ELSE relativedelta(PlusOneDay(end_date.v), start_date.v)

-----------------------------------------------------------------------------
(* MaturityAnalysisAggregator *)

EmptyDict == [k \in {} |-> 0]

\* d[k] of a defaultdict(float), as a value
Get(d, k) == IF k \in DOMAIN d THEN d[k] ELSE 0

\* d[k] = v
Put(d, k, v) == [x \in DOMAIN d \cup {k} |-> IF x = k THEN v ELSE d[x]]

\* reading d[k] of a defaultdict inserts the default for a key not yet there
Touch(d, k) == Put(d, k, Get(d, k))

Buckets == {"year1", "year2", "year3", "year4", "year5", "year6", "thereafter"}

\* MaturityAnalysisAggregator.__init__
NewAggregator ==
    [year1 |-> EmptyDict, year2 |-> EmptyDict, year3 |-> EmptyDict,
     year4 |-> EmptyDict, year5 |-> EmptyDict, year6 |-> EmptyDict,
     thereafter |-> EmptyDict, finance_charges |-> EmptyDict,
     st_principal |-> EmptyDict, lt_principal |-> EmptyDict,
     contract_info |-> [keys |-> <<>>, info |-> EmptyDict]]

add_payment(agg, key, bucket, amount) ==
    IF bucket \in Buckets
    THEN [agg EXCEPT ![bucket] = Put(@, key, Get(@, key) + amount)]
    ELSE agg

\* the charge added to every key the dict holds
add_finance_charge_all(agg, key, amount) ==
    [agg EXCEPT !.finance_charges =
        [x \in DOMAIN @ \cup {key} |-> Get(@, x) + amount]]

add_finance_charge(agg, key, amount) ==
    [agg EXCEPT !.finance_charges = Put(@, key, Get(@, key) + amount)]

\* the balances added to what the key already holds
set_principal_balances_summed(agg, key, st, lt) ==
    [agg EXCEPT !.st_principal = Put(@, key, Get(@, key) + st),
                !.lt_principal = Put(@, key, Get(@, key) + lt)]

set_principal_balances(agg, key, st, lt) ==
    [agg EXCEPT !.st_principal = Put(@, key, st),
                !.lt_principal = Put(@, key, lt)]

HasInfo(agg, key) == key \in DOMAIN agg.contract_info.info

set_contract_info(agg, key, info) ==
    IF ~HasInfo(agg, key)
    THEN [agg EXCEPT !.contract_info =
              [keys |-> Append(@.keys, key), info |-> Put(@.info, key, info)]]
    ELSE agg

get_total(agg, key) ==
    Get(agg.year1, key) + Get(agg.year2, key) + Get(agg.year3, key)
        + Get(agg.year4, key) + Get(agg.year5, key) + Get(agg.year6, key)
        + Get(agg.thereafter, key)

get_total_principal_from_payments(agg, key) ==
    get_total(agg, key) - Get(agg.finance_charges, key)

get_total_principal_from_balances(agg, key) ==
    Get(agg.st_principal, key) + Get(agg.lt_principal, key)

-----------------------------------------------------------------------------
(* MaturityAnalysisProcessor._process_rows: the body of the loop over rows *)

\* row.get(col, default): the cell when the table has the column
row_get(cols, row, col, default) == IF col \in cols THEN row[col] ELSE default

One == [num |-> 1, den |-> 1]

\* the aggregation key of line 335
MakeKey(contract_id, ag_id) == contract_id \o "_" \o ag_id

\* the metadata dict of lines 349-374 (Contract Name stands for the ten
\* descriptive columns that are copied as they are)
\* the metadata with the default rate 1.0 in place of the run's rate
MakeInfo_unit_rate(cols, row, contract_id, ag_id, start_date, end_date, rate) ==
    LET term == calculate_term(start_date, end_date) IN
    [contract_id |-> contract_id,
     contract_name |-> row_get(cols, row, "Contract Name", Str("")),
     activation_group_id |-> ag_id,
     lease_classification |-> "FINANCE",
     accounting_start_date |-> start_date,
     likely_expiration_date |-> end_date,
     accounting_term_months |-> term[1],
     accounting_term_days |-> term[2],
     target_currency |-> str(row_get(cols, row, "Company Currency", Str(""))),
     exchange_rate_to_lc |-> One,
     exchange_rate_to_gc |-> One]

MakeInfo(cols, row, contract_id, ag_id, start_date, end_date, rate) ==
    LET term == calculate_term(start_date, end_date) IN
    [contract_id |-> contract_id,
     contract_name |-> row_get(cols, row, "Contract Name", Str("")),
     activation_group_id |-> ag_id,
     lease_classification |-> "FINANCE",
     accounting_start_date |-> start_date,
     likely_expiration_date |-> end_date,
     accounting_term_months |-> term[1],
     accounting_term_days |-> term[2],
     target_currency |-> str(row_get(cols, row, "Company Currency", Str(""))),
     exchange_rate_to_lc |-> One,
     exchange_rate_to_gc |-> rate]

\* the metadata stored unconditionally, the last row winning
CaptureInfo_overwrite(agg, key, info) ==
    [agg EXCEPT !.contract_info =
        [keys |-> IF HasInfo(agg, key) THEN @.keys ELSE Append(@.keys, key),
         info |-> Put(@.info, key, info)]]

\* the metadata captured only from a row that has a start date
CaptureInfo_if_started(agg, key, info) ==
    IF ~HasInfo(agg, key) /\ info.accounting_start_date.t # "None"
    THEN set_contract_info(agg, key, info)
    ELSE agg

\* lines 341-374: metadata of the first row seen for the key
CaptureInfo(agg, key, info) ==
    IF ~HasInfo(agg, key) THEN set_contract_info(agg, key, info) ELSE agg

\* a payment on or before the report date put in year1 instead of skipped
BucketPayment_no_skip(agg, cols, row, key, d, ry, rm) ==
    LET bucket == calculate_period_bucket(d, ry, rm) IN
    add_payment(agg, key, IF bucket # "skip" THEN bucket ELSE "year1",
                safe_float(row_get(cols, row, "Payment", Num(0))))

\* lines 381-385
BucketPayment(agg, cols, row, key, d, ry, rm) ==
    LET bucket == calculate_period_bucket(d, ry, rm) IN
    IF bucket # "skip"
    THEN add_payment(agg, key, bucket,
                     safe_float(row_get(cols, row, "Payment", Num(0))))
    ELSE agg

\* lines 387-392
ReportMonthBalances(agg, cols, row, key, d, ry, rm) ==
    IF d.year = ry /\ d.month = rm
    THEN set_principal_balances(agg, key,
             safe_float(row_get(cols, row,
                 "ST Principal Liability Closing Balance", Num(0))),
             safe_float(row_get(cols, row,
                 "Principal Liability LT Closing Balance", Num(0))))
    ELSE agg

\* the interest of the report month itself taken too
FutureInterest_inclusive(agg, cols, row, key, d, ry, rm) ==
    IF d.year > ry \/ (d.year = ry /\ d.month >= rm)
    THEN add_finance_charge(agg, key,
             Abs(safe_float(row_get(cols, row, "Interest Paid", Num(0)))))
    ELSE agg

\* lines 394-399
FutureInterest(agg, cols, row, key, d, ry, rm) ==
    IF d.year > ry \/ (d.year = ry /\ d.month > rm)
    THEN add_finance_charge(agg, key,
             Abs(safe_float(row_get(cols, row, "Interest Paid", Num(0)))))
    ELSE agg

\* `if not contract_id or not ag_id: continue` of lines 332-333
Discarded(contract_id, ag_id) == contract_id = "" \/ ag_id = ""

\* the period-end date tested before the metadata is captured
ProcessRowBody_early_continue(agg, cols, row, ry, rm, rate) ==
    LET contract_id == str(row_get(cols, row, "Contract ID", Str("")))
        ag_id == str(row_get(cols, row, "Activation Group ID", Str("")))
        key == MakeKey(contract_id, ag_id)
        start_date == parse_date(row_get(cols, row, "Activation Date", None))
        end_date == parse_date(row_get(cols, row, "End Date", None))
        info == MakeInfo(cols, row, contract_id, ag_id, start_date, end_date, rate)
        period_end_date == parse_date(row_get(cols, row, "Period End Date", None))
    IN  IF Discarded(contract_id, ag_id) THEN agg
        ELSE IF period_end_date.t = "None" THEN agg
        ELSE LET d == period_end_date.v
                 agg1 == CaptureInfo(agg, key, info)
                 agg2 == BucketPayment(agg1, cols, row, key, d, ry, rm)
                 agg3 == ReportMonthBalances(agg2, cols, row, key, d, ry, rm)
             IN FutureInterest(agg3, cols, row, key, d, ry, rm)

\* one iteration of the loop of _process_rows
ProcessRowBody(agg, cols, row, ry, rm, rate) ==
    LET contract_id == str(row_get(cols, row, "Contract ID", Str("")))
        ag_id == str(row_get(cols, row, "Activation Group ID", Str("")))
        key == MakeKey(contract_id, ag_id)
        start_date == parse_date(row_get(cols, row, "Activation Date", None))
        end_date == parse_date(row_get(cols, row, "End Date", None))
        info == MakeInfo(cols, row, contract_id, ag_id, start_date, end_date, rate)
        agg1 == CaptureInfo(agg, key, info)
        period_end_date == parse_date(row_get(cols, row, "Period End Date", None))
    IN  IF Discarded(contract_id, ag_id) THEN agg
        ELSE IF period_end_date.t = "None" THEN agg1
        ELSE LET d == period_end_date.v
                 agg2 == BucketPayment(agg1, cols, row, key, d, ry, rm)
                 agg3 == ReportMonthBalances(agg2, cols, row, key, d, ry, rm)
             IN FutureInterest(agg3, cols, row, key, d, ry, rm)

-----------------------------------------------------------------------------
(* MaturityAnalysisProcessor._generate_output *)

\* amount * ex_rate
Times(amount, rate) == [num |-> amount * rate.num, den |-> rate.den]

\* the figures with the first principal liability forced to the balances
ContractCurrency_reconciled(agg, key) ==
    LET total_cc == get_total(agg, key)
        st == Get(agg.st_principal, key)
        lt == Get(agg.lt_principal, key)
    IN [year1 |-> Get(agg.year1, key), year2 |-> Get(agg.year2, key),
        year3 |-> Get(agg.year3, key), year4 |-> Get(agg.year4, key),
        year5 |-> Get(agg.year5, key), year6 |-> Get(agg.year6, key),
        thereafter |-> Get(agg.thereafter, key),
        total |-> total_cc,
        finance_charges |-> -Get(agg.finance_charges, key),
        total_principal |-> st + lt,
        st_principal |-> st,
        lt_principal |-> lt,
        total_principal_balance |-> st + lt]

\* lines 431-443: the 13 contract-currency figures of a key
ContractCurrency(agg, key) ==
    LET total_cc == get_total(agg, key)
        finance_charges_cc == -Get(agg.finance_charges, key)
        st == Get(agg.st_principal, key)
        lt == Get(agg.lt_principal, key)
    IN [year1 |-> Get(agg.year1, key), year2 |-> Get(agg.year2, key),
        year3 |-> Get(agg.year3, key), year4 |-> Get(agg.year4, key),
        year5 |-> Get(agg.year5, key), year6 |-> Get(agg.year6, key),
        thereafter |-> Get(agg.thereafter, key),
        total |-> total_cc,
        finance_charges |-> finance_charges_cc,
        total_principal |-> total_cc + finance_charges_cc,
        st_principal |-> st,
        lt_principal |-> lt,
        total_principal_balance |-> st + lt]

FinancialFields == {"year1", "year2", "year3", "year4", "year5", "year6",
                    "thereafter", "total", "finance_charges", "total_principal",
                    "st_principal", "lt_principal", "total_principal_balance"}

\* lines 445-461: the target-currency mirror
TargetCurrency(cc, ex_rate) == [f \in FinancialFields |-> Times(cc[f], ex_rate)]

\* the rate to local currency taken instead
ExRate_lc(info) == info.exchange_rate_to_lc

\* lines 445-446
ExRate(info) == info.exchange_rate_to_gc

\* one data row of the sheet; key is the aggregation key it was built from
\* (not a column), info the 24 metadata columns
ReportRow(agg, key) ==
    LET info == agg.contract_info.info[key]
        cc == ContractCurrency(agg, key)
    IN [key |-> key, info |-> info, cc |-> cc,
        tc |-> TargetCurrency(cc, ExRate(info))]

\* no key filtered out
Included_all(agg, key) == TRUE

\* lines 423-427: the keys that get a row
Included(agg, key) == get_total(agg, key) # 0

\* the rows written last key first
ReportRows_reversed(agg) ==
    LET kept == SelectSeq(agg.contract_info.keys, LAMBDA k : Included(agg, k))
    IN [i \in 1..Len(kept) |-> ReportRow(agg, kept[Len(kept) + 1 - i])]

ReportRows(agg) ==
    LET kept == SelectSeq(agg.contract_info.keys, LAMBDA k : Included(agg, k))
    IN [i \in 1..Len(kept) |-> ReportRow(agg, kept[i])]

\* the defaultdict entries the reads of _generate_output create: get_total
\* reads the seven buckets of every key, lines 439-442 read the three other
\* dicts of every included key
RECURSIVE TouchKeys(_, _)
TouchKeys(d, ks) ==
    IF ks = {} THEN d
    ELSE LET k == CHOOSE x \in ks : TRUE IN TouchKeys(Touch(d, k), ks \ {k})

AfterReads(agg) ==
    LET all == DOMAIN agg.contract_info.info
        kept == {k \in all : Included(agg, k)}
    IN [agg EXCEPT !.year1 = TouchKeys(@, all), !.year2 = TouchKeys(@, all),
                   !.year3 = TouchKeys(@, all), !.year4 = TouchKeys(@, all),
                   !.year5 = TouchKeys(@, all), !.year6 = TouchKeys(@, all),
                   !.thereafter = TouchKeys(@, all),
                   !.finance_charges = TouchKeys(@, kept),
                   !.st_principal = TouchKeys(@, kept),
                   !.lt_principal = TouchKeys(@, kept)]

-----------------------------------------------------------------------------
(* Inputs of a run *)

AllColumns == {"Contract ID", "Activation Group ID", "Period End Date",
               "Payment", "Company Currency", "Contract Name",
               "Activation Date", "End Date", "Interest Paid",
               "ST Principal Liability Closing Balance",
               "Principal Liability LT Closing Balance"}

Row(c, a, name, cur, act, end, ped, pay, int, st, lt) ==
    ("Contract ID" :> c) @@ ("Activation Group ID" :> a)
    @@ ("Contract Name" :> name) @@ ("Company Currency" :> cur)
    @@ ("Activation Date" :> act) @@ ("End Date" :> end)
    @@ ("Period End Date" :> ped) @@ ("Payment" :> pay)
    @@ ("Interest Paid" :> int)
    @@ ("ST Principal Liability Closing Balance" :> st)
    @@ ("Principal Liability LT Closing Balance" :> lt)

\* The rows a source table is made of.  An empty cell is NaN; an id cell
\* holding the empty string is kept for the guard of lines 332-333.
Rows ==
    { \* a payment three months after 2024-01, lease of January 2024
      Row(Str("C1"), Str("A1"), Str("Lease A"), Str("USD"),
          Date(2024, 1, 1), Date(2024, 1, 31), Date(2024, 4, 30),
          Num(1000), Num(-50), NaN, NaN),
      \* the same key with other metadata, dated 2024-01
      Row(Str("C1"), Str("A1"), Str("Lease B"), Str("EUR"),
          NaN, Date(2024, 12, 31), Date(2024, 1, 31),
          Num(500), Num(20), Num(300), Num(700)),
      \* a negative payment fifteen months after 2024-01
      Row(Str("C1"), Str("A1"), Str("Lease B"), Str("EUR"),
          Date(2023, 3, 15), Date(2025, 3, 14), Date(2025, 4, 30),
          Num(-1000), NaN, NaN, NaN),
      \* no period-end date
      Row(Str("C2"), Str("A1"), Str("Lease D"), Str("USD"),
          Date(2023, 1, 31), Date(2023, 2, 28), NaN,
          Num(1000), Num(5), Num(10), Num(20)),
      \* a period-end date that does not parse
      Row(Str("C1"), Str("A1"), NaN, NaN,
          Str("TBD"), Date(2024, 6, 30), Str("TBD"),
          Num(1000), Num(5), Num(10), Num(20)),
      \* interest but no payment; contract C2_A1 with activation group B
      Row(Str("C2_A1"), Str("B"), Str("Lease E"), Str("EUR"),
          Date(2024, 1, 31), Date(2024, 2, 29), Date(2024, 7, 31),
          NaN, Num(30), NaN, NaN),
      \* beyond six years; contract C2 with activation group A1_B
      Row(Str("C2"), Str("A1_B"), Str("Lease K"), Str("EUR"),
          Date(2024, 1, 31), Date(2024, 2, 29), Date(2030, 6, 30),
          Num(700), Str("n.a."), NaN, NaN),
      \* empty contract id cell
      Row(NaN, Str("A1"), Str("Lease F"), Str("USD"),
          Date(2024, 1, 1), Date(2024, 12, 31), Date(2024, 4, 30),
          Num(200), Num(7), NaN, NaN),
      \* empty-string activation group id
      Row(Str("C2"), Str(""), Str("Lease G"), Str("USD"),
          Date(2024, 1, 1), Date(2024, 12, 31), Date(2024, 4, 30),
          Num(200), Num(7), NaN, NaN),
      \* dated 2023-11
      Row(Str("C1"), Str("A1"), Str("Lease A"), Str("USD"),
          Date(2024, 1, 1), Date(2024, 1, 31), Date(2023, 11, 30),
          Num(400), Num(10), Num(50), NaN),
      \* a second row dated 2024-01
      Row(Str("C1"), Str("A1"), Str("Lease A"), Str("USD"),
          Date(2024, 1, 1), Date(2024, 1, 31), Date(2024, 1, 15),
          Num(0), NaN, Num(100), NaN) }

DataFrames == UNION {[1..n -> Rows] : n \in 0..MaxRows}

\* report date and exchange rate of a run: 2024-01 at 1.2, 2023-11 at 1.0
Params ==
    {[report_year |-> 2024, report_month |-> 1,
      exchange_rate |-> [num |-> 6, den |-> 5]],
     [report_year |-> 2023, report_month |-> 11,
      exchange_rate |-> One]}

\* the table's columns and the state of the two files
Envs ==
    {[columns |-> AllColumns, source_ok |-> TRUE, dest_ok |-> TRUE],
     [columns |-> AllColumns, source_ok |-> FALSE, dest_ok |-> TRUE],
     [columns |-> AllColumns, source_ok |-> TRUE, dest_ok |-> FALSE],
     [columns |-> AllColumns \ {"Payment"}, source_ok |-> TRUE, dest_ok |-> TRUE],
     [columns |-> AllColumns \ {"Contract ID", "Company Currency"},
      source_ok |-> TRUE, dest_ok |-> TRUE],
     [columns |-> AllColumns \ {"Contract Name", "Activation Date", "Interest Paid"},
      source_ok |-> TRUE, dest_ok |-> TRUE]}

-----------------------------------------------------------------------------
(* MaturityAnalysisProcessor.process_file *)

required_columns ==
    <<"Contract ID", "Activation Group ID", "Period End Date", "Payment",
      "Company Currency">>

\* only the first missing column reported
missing_columns_first(cols) ==
    LET all == SelectSeq(required_columns, LAMBDA col : col \notin cols)
    IN IF all = <<>> THEN <<>> ELSE <<all[1]>>

missing_columns(cols) == SelectSeq(required_columns, LAMBDA col : col \notin cols)

\* the exceptions of a run; text and columns are what str(e) shows
ValueError(missing) ==
    [type |-> "ValueError", text |-> "Missing required columns", columns |-> missing]
OSError(text) == [type |-> "OSError", text |-> text, columns |-> <<>>]
NoException == [type |-> "", text |-> "", columns |-> <<>>]

\* `except ValueError as e`
Catches_ValueError(e) == e.type = "ValueError"

\* `except Exception as e`: every exception class derived from Exception
Catches(e) == e.type \in {"ValueError", "OSError", "TypeError", "KeyError"}

NoFile == [exists |-> FALSE, rows |-> <<>>]

\* f"{report_year}-{report_month:02d}"
\* the report date without the zero padding of the month
ReportDate_unpadded(ry, rm) == ToString(ry) \o "-" \o ToString(rm)

ReportDate(ry, rm) ==
    ToString(ry) \o "-"
        \o (IF rm >= 0 /\ rm < 10 THEN "0" \o ToString(rm) ELSE ToString(rm))

\* an aggregator created once and kept by the instance
KeptAggregator == IF aggregator = None THEN NewAggregator ELSE aggregator

\* line 287, the aggregator a run works on
FreshAggregator == NewAggregator

\* Optional[datetime] = None of JobStatus.completed_at
NoTime == -1

NoResponse == [op |-> "none", job |-> "", code |-> 0, detail |-> ""]

\* the web application right after start: no job, no task, no file
AppIdle ==
    /\ jobs = EmptyDict
    /\ tasks = EmptyDict
    /\ files = EmptyDict
    /\ loop = "idle"
    /\ now = 0
    /\ response = NoResponse

Init ==
    /\ \E d \in DataFrames : df = d
    /\ \E e \in Envs :
          /\ columns = e.columns
          /\ source_ok = e.source_ok
          /\ dest_ok = e.dest_ok
    /\ \E p \in Params :
          /\ report_year = p.report_year
          /\ report_month = p.report_month
          /\ exchange_rate = p.exchange_rate
    /\ pc = "read"
    /\ idx = 0
    /\ aggregator = None
    /\ contracts_included = 0
    /\ output_file = NoFile
    /\ exc = NoException
    /\ result = None
    /\ run = 1
    /\ prev = None
    /\ call = [fn |-> "none"]
    /\ AppIdle

\* line 276
ReadExcel ==
    /\ pc = "read"
    /\ IF source_ok
       THEN pc' = "validate" /\ exc' = exc
       ELSE pc' = "except" /\ exc' = OSError("cannot read the source file")
    /\ UNCHANGED <<df, columns, source_ok, dest_ok, report_year, report_month,
                   exchange_rate, idx, aggregator, contracts_included,
                   output_file, result, run, prev, call, appVars>>

\* lines 278-284
ValidateColumns ==
    /\ pc = "validate"
    /\ IF missing_columns(columns) # <<>>
       THEN pc' = "except" /\ exc' = ValueError(missing_columns(columns))
       ELSE pc' = "create" /\ exc' = exc
    /\ UNCHANGED <<df, columns, source_ok, dest_ok, report_year, report_month,
                   exchange_rate, idx, aggregator, contracts_included,
                   output_file, result, run, prev, call, appVars>>

\* line 287 and the entry of _process_rows
CreateAggregator ==
    /\ pc = "create"
    /\ aggregator' = FreshAggregator
    /\ idx' = 1
    /\ pc' = IF Len(df) = 0 THEN "generate" ELSE "rows"
    /\ UNCHANGED <<df, columns, source_ok, dest_ok, report_year, report_month,
                   exchange_rate, contracts_included, output_file, exc, result,
                   run, prev, call, appVars>>

\* one iteration of the loop of lines 327-399
ProcessRow ==
    /\ pc = "rows"
    /\ idx <= Len(df)
    /\ aggregator' = ProcessRowBody(aggregator, columns, df[idx], report_year,
                                    report_month, exchange_rate)
    /\ idx' = idx + 1
    /\ pc' = IF idx = Len(df) THEN "generate" ELSE "rows"
    /\ UNCHANGED <<df, columns, source_ok, dest_ok, report_year, report_month,
                   exchange_rate, contracts_included, output_file, exc, result,
                   run, prev, call, appVars>>

\* line 291: _generate_output, whose wb.save fails on an unwritable path
GenerateOutput ==
    /\ pc = "generate"
    /\ aggregator' = AfterReads(aggregator)
    /\ IF dest_ok
       THEN /\ output_file' = [exists |-> TRUE, rows |-> ReportRows(aggregator)]
            /\ contracts_included' = Len(ReportRows(aggregator))
            /\ pc' = "return"
            /\ exc' = exc
       ELSE /\ pc' = "except"
            /\ exc' = OSError("cannot write the output file")
            /\ UNCHANGED <<output_file, contracts_included>>
    /\ UNCHANGED <<df, columns, source_ok, dest_ok, report_year, report_month,
                   exchange_rate, idx, result, run, prev, call, appVars>>

\* lines 293-302 (output_file and file_size of the dict are left out)
ReturnSuccess ==
    /\ pc = "return"
    /\ result' = [success |-> TRUE,
                  message |-> "Maturity analysis report generated successfully",
                  input_rows |-> Len(df),
                  output_rows |-> contracts_included,
                  total_contracts |-> Len(aggregator.contract_info.keys),
                  report_date |-> ReportDate(report_year, report_month)]
    /\ pc' = "done"
    /\ UNCHANGED <<df, columns, source_ok, dest_ok, report_year, report_month,
                   exchange_rate, idx, aggregator, contracts_included,
                   output_file, exc, run, prev, call, appVars>>

\* lines 304-311; an exception the handler does not catch reaches the caller
HandleException ==
    /\ pc = "except"
    /\ IF Catches(exc)
       THEN /\ result' = [success |-> FALSE,
                          message |-> "Processing error",
                          error |-> [text |-> exc.text, columns |-> exc.columns]]
            /\ pc' = "done"
            /\ exc' = NoException
       ELSE /\ pc' = "raised"
            /\ UNCHANGED <<result, exc>>
    /\ UNCHANGED <<df, columns, source_ok, dest_ok, report_year, report_month,
                   exchange_rate, idx, aggregator, contracts_included,
                   output_file, run, prev, call, appVars>>

\* the caller runs process_file a second time on the same processor
\* instance, with the same rows, output path and parameters; the columns of
\* the table and the state of the two files are those of the first call or
\* others
CallAgain ==
    /\ pc = "done"
    /\ run = 1
    /\ prev' = [result |-> result, aggregator |-> aggregator,
                output_file |-> output_file,
                env |-> [columns |-> columns, source_ok |-> source_ok,
                         dest_ok |-> dest_ok]]
    /\ \E e \in Envs :
          /\ columns' = e.columns
          /\ source_ok' = e.source_ok
          /\ dest_ok' = e.dest_ok
    /\ run' = 2
    /\ pc' = "read"
    /\ result' = None
    /\ UNCHANGED <<df, report_year, report_month, exchange_rate, idx,
                   aggregator, contracts_included, output_file, exc, call, appVars>>

Next ==
    \/ ReadExcel
    \/ ValidateColumns
    \/ CreateAggregator
    \/ ProcessRow
    \/ GenerateOutput
    \/ ReturnSuccess
    \/ HandleException
    \/ CallAgain

Spec == Init /\ [][Next]_vars

-----------------------------------------------------------------------------
(* The web application (app.py): uploads, background tasks, downloads,     *)
(* cleanup.  Times are seconds on the wall clock.                          *)

\* uuid.uuid4() values
JobIds == {"job-1", "job-2"}

\* the instants at which the wall clock is read
Instants == {0, 3000, 6000, 87000}

OneHour == 3600
SecondsPerDay == 86400

\* the tables uploaded: one contract due after the report date; two
\* contracts, one of them with interest only
TableOne ==
    <<Row(Str("C1"), Str("A1"), Str("Lease A"), Str("USD"),
          Date(2024, 1, 1), Date(2024, 1, 31), Date(2024, 4, 30),
          Num(1000), Num(-50), NaN, NaN)>>
TableTwo ==
    <<Row(Str("C2"), Str("A1"), Str("Lease K"), Str("EUR"),
          Date(2024, 1, 1), Date(2030, 12, 31), Date(2030, 6, 30),
          Num(700), Num(40), NaN, NaN),
      Row(Str("C3"), Str("A1"), Str("Lease E"), Str("EUR"),
          Date(2024, 1, 31), Date(2024, 2, 29), Date(2024, 7, 31),
          NaN, Num(30), NaN, NaN)>>

\* one upload request: the form fields, the file and what the disk allows
Request(name_ok, disk_ok, table, cols, source, dest, ry, rm, rate) ==
    [filename_ok |-> name_ok, disk_ok |-> disk_ok, df |-> table,
     columns |-> cols, source_ok |-> source, dest_ok |-> dest,
     report_year |-> ry, report_month |-> rm, exchange_rate |-> rate]

Requests ==
    {Request(TRUE, TRUE, TableOne, AllColumns, TRUE, TRUE, 2024, 1,
             [num |-> 6, den |-> 5]),
     Request(TRUE, TRUE, TableTwo, AllColumns, TRUE, TRUE, 2023, 11, One),
     \* a file that is no workbook, a table without the Payment column, an
     \* output path that cannot be written
     Request(TRUE, TRUE, TableOne, AllColumns, FALSE, TRUE, 2024, 1, One),
     Request(TRUE, TRUE, TableOne, AllColumns \ {"Payment"}, TRUE, TRUE,
             2024, 1, One),
     Request(TRUE, TRUE, TableTwo, AllColumns, TRUE, FALSE, 2024, 1, One),
     \* requests the endpoint turns down
     Request(TRUE, TRUE, TableOne, AllColumns, TRUE, TRUE, 2024, 0, One),
     Request(TRUE, TRUE, TableOne, AllColumns, TRUE, TRUE, 2024, 13, One),
     Request(FALSE, TRUE, TableOne, AllColumns, TRUE, TRUE, 2024, 1, One),
     Request(TRUE, FALSE, TableOne, AllColumns, TRUE, TRUE, 2024, 1, One)}

\* the month accepted from 0
ValidMonth_from_zero(month) == 0 <= month /\ month <= 12

\* line 356: 1 <= report_month <= 12
ValidMonth(month) == 1 <= month /\ month <= 12

\* a background task declared `def`, which Starlette runs in its thread pool
CanRun_threadpool(running, who) == TRUE

\* The handlers and the background tasks are coroutines of one event loop
\* (`async def`, uvicorn.run with one worker); process_file is a plain call
\* without an await, so a task, once started, runs to its end before any
\* other coroutine runs.
CanRun(running, who) == running \in {"idle", who}

\* cleanup_old_files: the files older than one hour are deleted
cleanup_old_files(fs, t) ==
    [j \in {i \in DOMAIN fs : ~(t - fs[i].mtime > OneHour)} |-> fs[j]]

\* lines 375-379: JobStatus(job_id, status="pending", created_at)
NewJob(t) ==
    [status |-> "pending", created_at |-> t, completed_at |-> NoTime,
     result |-> None, error |-> None]

\* the coroutine process_maturity_analysis_background(job_id, ...) as
\* add_task queues it, with the locals of process_file
NewTask(req) ==
    [pc |-> "queued", df |-> req.df, columns |-> req.columns,
     source_ok |-> req.source_ok, dest_ok |-> req.dest_ok,
     report_year |-> req.report_year, report_month |-> req.report_month,
     exchange_rate |-> req.exchange_rate, idx |-> 0,
     contracts_included |-> 0, result |-> None]

\* POST /upload-maturity-analysis, lines 331-401.  The await of line 371
\* comes before anything shared is written, so the handler is one step.
UploadMaturityAnalysis ==
    /\ CanRun(loop, "request")
    /\ \E req \in Requests :
          IF ~req.filename_ok
          THEN /\ response' = [op |-> "upload", job |-> "", code |-> 400,
                               detail |-> "Only Excel files (.xlsx, .xls) are allowed"]
               /\ UNCHANGED <<jobs, tasks, files>>
          ELSE IF ~ValidMonth(req.report_month)
          THEN /\ response' = [op |-> "upload", job |-> "", code |-> 400,
                               detail |-> "Report month must be between 1 and 12"]
               /\ UNCHANGED <<jobs, tasks, files>>
          ELSE \E job_id \in JobIds \ DOMAIN tasks :
                  /\ files' = cleanup_old_files(files, now)
                  /\ IF req.disk_ok
                     THEN /\ jobs' = Put(jobs, job_id, NewJob(now))
                          /\ tasks' = Put(tasks, job_id, NewTask(req))
                          /\ response' = [op |-> "upload", job |-> job_id,
                                          code |-> 200, detail |-> ""]
                     ELSE /\ response' = [op |-> "upload", job |-> "",
                                          code |-> 500,
                                          detail |-> "Upload failed"]
                          /\ UNCHANGED <<jobs, tasks>>
    /\ UNCHANGED <<coreVars, call, loop, now>>

\* line 298
TaskStart(job_id) ==
    /\ job_id \in DOMAIN tasks
    /\ tasks[job_id].pc = "queued"
    /\ CanRun(loop, job_id)
    /\ loop' = job_id
    /\ jobs' = [jobs EXCEPT ![job_id].status = "processing"]
    /\ tasks' = [tasks EXCEPT ![job_id].pc = "read"]
    /\ UNCHANGED <<coreVars, call, files, now, response>>

\* the dict process_file returns from its except clause, lines 304-311
FailureResult(e) ==
    [success |-> FALSE, message |-> "Processing error",
     error |-> [text |-> e.text, columns |-> e.columns]]

\* process_file, lines 276-287, on the shared maturity_processor
TaskRead(job_id) ==
    /\ job_id \in DOMAIN tasks
    /\ tasks[job_id].pc = "read"
    /\ CanRun(loop, job_id)
    /\ LET t == tasks[job_id] IN
       IF ~t.source_ok
       THEN /\ tasks' = [tasks EXCEPT ![job_id].pc = "finish",
                   ![job_id].result =
                       FailureResult(OSError("cannot read the source file"))]
            /\ UNCHANGED aggregator
       ELSE IF missing_columns(t.columns) # <<>>
       THEN /\ tasks' = [tasks EXCEPT ![job_id].pc = "finish",
                   ![job_id].result =
                       FailureResult(ValueError(missing_columns(t.columns)))]
            /\ UNCHANGED aggregator
       ELSE /\ aggregator' = FreshAggregator
            /\ tasks' = [tasks EXCEPT ![job_id].idx = 1,
                   ![job_id].pc = IF Len(t.df) = 0 THEN "generate" ELSE "rows"]
    /\ UNCHANGED <<df, columns, source_ok, dest_ok, report_year, report_month,
                   exchange_rate, pc, idx, contracts_included, output_file,
                   exc, result, run, prev, call, jobs, files, loop, now,
                   response>>

\* one iteration of the loop of _process_rows on self.aggregator
TaskRow(job_id) ==
    /\ job_id \in DOMAIN tasks
    /\ tasks[job_id].pc = "rows"
    /\ CanRun(loop, job_id)
    /\ LET t == tasks[job_id] IN
       /\ aggregator' = ProcessRowBody(aggregator, t.columns, t.df[t.idx],
                            t.report_year, t.report_month, t.exchange_rate)
       /\ tasks' = [tasks EXCEPT ![job_id].idx = t.idx + 1,
              ![job_id].pc = IF t.idx = Len(t.df) THEN "generate" ELSE "rows"]
    /\ UNCHANGED <<df, columns, source_ok, dest_ok, report_year, report_month,
                   exchange_rate, pc, idx, contracts_included, output_file,
                   exc, result, run, prev, call, jobs, files, loop, now,
                   response>>

\* _generate_output on self.aggregator, line 291; the workbook is saved
\* under the job's own output path
TaskGenerate(job_id) ==
    /\ job_id \in DOMAIN tasks
    /\ tasks[job_id].pc = "generate"
    /\ CanRun(loop, job_id)
    /\ aggregator' = AfterReads(aggregator)
    /\ IF tasks[job_id].dest_ok
       THEN /\ files' = Put(files, job_id,
                            [rows |-> ReportRows(aggregator), mtime |-> now])
            /\ tasks' = [tasks EXCEPT ![job_id].pc = "return",
                   ![job_id].contracts_included = Len(ReportRows(aggregator))]
       ELSE /\ tasks' = [tasks EXCEPT ![job_id].pc = "finish",
                   ![job_id].result =
                       FailureResult(OSError("cannot write the output file"))]
            /\ UNCHANGED files
    /\ UNCHANGED <<df, columns, source_ok, dest_ok, report_year, report_month,
                   exchange_rate, pc, idx, contracts_included, output_file,
                   exc, result, run, prev, call, jobs, loop, now, response>>

\* lines 293-302, reading self.aggregator once more
TaskReturn(job_id) ==
    /\ job_id \in DOMAIN tasks
    /\ tasks[job_id].pc = "return"
    /\ CanRun(loop, job_id)
    /\ LET t == tasks[job_id] IN
       tasks' = [tasks EXCEPT ![job_id].pc = "finish",
                    ![job_id].result =
                        [success |-> TRUE,
                         message |-> "Maturity analysis report generated successfully",
                         input_rows |-> Len(t.df),
                         output_rows |-> t.contracts_included,
                         total_contracts |-> Len(aggregator.contract_info.keys),
                         report_date |-> ReportDate(t.report_year, t.report_month)]]
    /\ UNCHANGED <<coreVars, call, jobs, files, loop, now, response>>

\* every job marked completed
FinalStatus_completed(res) == "completed"

\* lines 316-319
FinalStatus(res) == IF res.success THEN "completed" ELSE "failed"

\* lines 312-320: the end of the background task
TaskFinish(job_id) ==
    /\ job_id \in DOMAIN tasks
    /\ tasks[job_id].pc = "finish"
    /\ CanRun(loop, job_id)
    /\ LET res == tasks[job_id].result IN
       jobs' = [jobs EXCEPT ![job_id] =
                   [@ EXCEPT !.completed_at = now,
                             !.result = res,
                             !.status = FinalStatus(res),
                             !.error = IF res.success THEN @ ELSE res.error]]
    /\ tasks' = [tasks EXCEPT ![job_id].pc = "done"]
    /\ loop' = "idle"
    /\ UNCHANGED <<coreVars, call, files, now, response>>

\* only a pending job turned down
DownloadCode_pending_only(js, fs, job_id) ==
    IF job_id \notin DOMAIN js THEN 404
    ELSE IF js[job_id].status = "pending" THEN 400
    ELSE IF job_id \notin DOMAIN fs THEN 404
    ELSE 200

\* lines 407-423: the status code of GET /download-maturity-analysis/{job_id}
DownloadCode(js, fs, job_id) ==
    IF job_id \notin DOMAIN js THEN 404
    ELSE IF js[job_id].status # "completed" THEN 400
    ELSE IF job_id \notin DOMAIN fs THEN 404
    ELSE 200

\* GET /download-maturity-analysis/{job_id}
DownloadMaturityAnalysis ==
    /\ CanRun(loop, "request")
    /\ \E job_id \in JobIds :
          response' = [op |-> "download", job |-> job_id,
                       code |-> DownloadCode(jobs, files, job_id),
                       detail |-> ""]
    /\ UNCHANGED <<coreVars, call, jobs, tasks, files, loop, now>>

\* timedelta.seconds: the seconds of a difference without its whole days
seconds(delta) == delta % SecondsPerDay

\* line 446
Expired(job, current_time) ==
    /\ job.completed_at # NoTime
    /\ seconds(current_time - job.completed_at) > OneHour

\* DELETE /cleanup, lines 437-454
CleanupFiles ==
    /\ CanRun(loop, "request")
    /\ files' = cleanup_old_files(files, now)
    /\ jobs' = [j \in {i \in DOMAIN jobs : ~Expired(jobs[i], now)} |-> jobs[j]]
    /\ response' = [op |-> "cleanup", job |-> "", code |-> 200,
                    detail |-> ""]
    /\ UNCHANGED <<coreVars, call, tasks, loop, now>>

\* time passes
Tick ==
    /\ \E t \in Instants : t > now /\ now' = t
    /\ UNCHANGED <<coreVars, call, jobs, tasks, files, loop, response>>


-----------------------------------------------------------------------------
(* The two pure functions applied to inputs of their own *)

\* the processor is not running
CoreIdle ==
    /\ df = <<>>
    /\ columns = AllColumns
    /\ source_ok = TRUE
    /\ dest_ok = TRUE
    /\ report_year = 2024
    /\ report_month = 1
    /\ exchange_rate = One
    /\ pc = "idle"
    /\ idx = 0
    /\ aggregator = None
    /\ contracts_included = 0
    /\ output_file = NoFile
    /\ exc = NoException
    /\ result = None
    /\ run = 1
    /\ prev = None
    /\ AppIdle

BucketYears == 2023 .. (2023 + YearSpan)

InitBucket ==
    /\ CoreIdle
    /\ \E y \in BucketYears, m \in 1..12, d \in {1, 28},
          ry \in {2024, 2025}, rm \in 1..12 :
          call = [fn |-> "calculate_period_bucket",
                  payment_date |-> [year |-> y, month |-> m, day |-> d],
                  report_year |-> ry, report_month |-> rm,
                  done |-> FALSE, ret |-> ""]

ApplyBucket ==
    /\ call.fn = "calculate_period_bucket"
    /\ ~call.done
    /\ call' = [call EXCEPT !.done = TRUE,
                    !.ret = calculate_period_bucket(call.payment_date,
                                call.report_year, call.report_month)]
    /\ UNCHANGED <<coreVars, appVars>>

NextBucket == ApplyBucket

SpecBucket == InitBucket /\ [][NextBucket]_vars

TermDates ==
    {Date(y, m, d) : y \in 2023 .. (2023 + TermYears), m \in 1..12,
                     d \in {1, 15, 28, 29, 30, 31}}

\* the cells of the Activation Date and End Date columns
TermCells ==
    {NaN, Str("TBD")}
        \cup {c \in TermDates : c.v.day <= DaysInMonth(c.v.year, c.v.month)}

InitTerm ==
    /\ CoreIdle
    /\ \E s \in TermCells, e \in TermCells :
          call = [fn |-> "calculate_term", start |-> s, end |-> e,
                  done |-> FALSE, ret |-> <<0, 0>>]

\* lines 338-343: the term of the parsed dates
ApplyTerm ==
    /\ call.fn = "calculate_term"
    /\ ~call.done
    /\ call' = [call EXCEPT !.done = TRUE,
                    !.ret = calculate_term(parse_date(call.start),
                                           parse_date(call.end))]
    /\ UNCHANGED <<coreVars, appVars>>

NextTerm == ApplyTerm

SpecTerm == InitTerm /\ [][NextTerm]_vars

\* the web application serving uploads, downloads and cleanup calls
InitJobs ==
    /\ CoreIdle
    /\ call = [fn |-> "none"]
    /\ AppIdle

NextJobs ==
    \/ UploadMaturityAnalysis
    \/ \E job_id \in JobIds :
          \/ TaskStart(job_id)
          \/ TaskRead(job_id)
          \/ TaskRow(job_id)
          \/ TaskGenerate(job_id)
          \/ TaskReturn(job_id)
          \/ TaskFinish(job_id)
    \/ DownloadMaturityAnalysis
    \/ CleanupFiles
    \/ Tick

SpecJobs == InitJobs /\ [][NextJobs]_vars

-----------------------------------------------------------------------------
(* Properties *)

BucketApplied == call.fn = "calculate_period_bucket" /\ call.done

\* months_diff of the applied call, from its arguments
CallMonthsDiff ==
    (call.payment_date.year - call.report_year) * 12
        + (call.payment_date.month - call.report_month)

\* C1: calculate_period_bucket returns exactly one of the 8 labels, fixed by
\* months_diff: <= 0 skip, 1..12 year1, 13..24 year2, 25..36 year3,
\* 37..48 year4, 49..60 year5, 61..72 year6, > 72 thereafter; months_diff
\* 0, 12, 13, 72, 73 give skip, year1, year2, year6, thereafter.
C1_BucketByMonthsDiff ==
    BucketApplied =>
        LET md == CallMonthsDiff
            ret == call.ret
        IN /\ ret \in Buckets \cup {"skip"}
           /\ (ret = "skip") <=> (md <= 0)
           /\ (ret = "year1") <=> (md \in 1..12)
           /\ (ret = "year2") <=> (md \in 13..24)
           /\ (ret = "year3") <=> (md \in 25..36)
           /\ (ret = "year4") <=> (md \in 37..48)
           /\ (ret = "year5") <=> (md \in 49..60)
           /\ (ret = "year6") <=> (md \in 61..72)
           /\ (ret = "thereafter") <=> (md > 72)
           /\ (md = 0 => ret = "skip")
           /\ (md = 12 => ret = "year1")
           /\ (md = 13 => ret = "year2")
           /\ (md = 72 => ret = "year6")
           /\ (md = 73 => ret = "thereafter")

C1_Witness == BucketApplied /\ CallMonthsDiff = 72 /\ call.ret = "year6"

TermApplied ==
    call.fn = "calculate_term" /\ call.done
        /\ call.start.t = "date" /\ call.end.t = "date"

\* C9: for present start and end dates calculate_term returns <<months, days>>
\* with start + months (calendar months) + days = end + 1 day, months the
\* whole months that fit and days the remainder of the same sign; start
\* 2024-01-01, end 2024-01-31 give <<1, 0>>.
C9_TermEndInclusive ==
    TermApplied =>
        LET start == call.start.v
            endPlus1 == toordinal(call.end.v) + 1
            months == call.ret[1]
            days == call.ret[2]
        IN /\ toordinal(PlusMonths(start, months)) + days = endPlus1
           /\ toordinal(start) <= endPlus1 =>
                 /\ months >= 0
                 /\ days >= 0
                 /\ toordinal(PlusMonths(start, months + 1)) > endPlus1
           /\ toordinal(start) > endPlus1 =>
                 /\ months <= 0
                 /\ days <= 0
                 /\ toordinal(PlusMonths(start, months - 1)) < endPlus1
           /\ (call.start = Date(2024, 1, 1) /\ call.end = Date(2024, 1, 31))
                  => call.ret = <<1, 0>>

C9_Witness ==
    TermApplied /\ call.start = Date(2024, 1, 1) /\ call.end = Date(2024, 1, 31)
        /\ call.ret = <<1, 0>>

-----------------------------------------------------------------------------
(* Properties of a run *)

Range(seq) == {seq[i] : i \in 1..Len(seq)}

NoneMissing == missing_columns(columns) = <<>>

\* the aggregator is the one the current call created
PassRan ==
    \/ pc \in {"rows", "generate", "return"}
    \/ pc \in {"done", "except"} /\ source_ok /\ NoneMissing

\* the output file is the one the current call wrote
OutputWritten == pc \in {"return", "done"} /\ source_ok /\ NoneMissing /\ dest_ok

Info == aggregator.contract_info.info

Cell(j, col, default) == row_get(columns, df[j], col, default)

RowKey(j) ==
    MakeKey(str(Cell(j, "Contract ID", Str(""))),
            str(Cell(j, "Activation Group ID", Str(""))))

\* the rows absorbed so far that were filed under key k
KeyRows(k) ==
    {j \in 1..(idx - 1) :
        /\ ~Discarded(str(Cell(j, "Contract ID", Str(""))),
                      str(Cell(j, "Activation Group ID", Str(""))))
        /\ RowKey(j) = k}

Min(S) == CHOOSE x \in S : \A y \in S : x <= y

\* C2: the metadata stored for a key (descriptive field, start and end date,
\* term months and days, target currency, exchange rate) is that of the first
\* row absorbed for the key, whatever rows followed.
C2_FirstRowMetadata ==
    PassRan =>
        \A k \in DOMAIN Info :
            /\ KeyRows(k) # {}
            /\ LET j == Min(KeyRows(k))
                   start == parse_date(Cell(j, "Activation Date", None))
                   end == parse_date(Cell(j, "End Date", None))
               IN /\ Info[k].contract_name = Cell(j, "Contract Name", Str(""))
                  /\ Info[k].target_currency
                        = str(Cell(j, "Company Currency", Str("")))
                  /\ Info[k].accounting_start_date = start
                  /\ Info[k].likely_expiration_date = end
                  /\ <<Info[k].accounting_term_months,
                       Info[k].accounting_term_days>> = calculate_term(start, end)
                  /\ Info[k].exchange_rate_to_gc = exchange_rate

C2_Witness ==
    /\ PassRan
    /\ pc = "done"
    /\ "Contract Name" \in columns
    /\ \E k \in DOMAIN Info : \E i \in KeyRows(k), j \in KeyRows(k) :
          /\ i < j
          /\ df[i]["Contract Name"] # df[j]["Contract Name"]
          /\ df[i]["Company Currency"] # df[j]["Company Currency"]
          /\ Info[k].contract_name = df[i]["Contract Name"]

OutputKeys == {output_file.rows[i].key : i \in 1..Len(output_file.rows)}

AllBucketsZero(k) == \A b \in Buckets : Get(aggregator[b], k) = 0

\* C3: a key whose seven bucket sums are all 0 after the pass has no row in
\* the output, metadata and finance charges notwithstanding.
C3_ZeroTotalSuppressed ==
    OutputWritten =>
        \A k \in DOMAIN Info : AllBucketsZero(k) => k \notin OutputKeys

C3_Witness ==
    /\ OutputWritten
    /\ pc = "done"
    /\ \E k \in DOMAIN Info :
          /\ AllBucketsZero(k)
          /\ Get(aggregator.finance_charges, k) # 0
          /\ k \notin OutputKeys

\* fraction f equals amount * rate
IsProduct(f, amount, rate) == f.num * rate.den = amount * rate.num * f.den

\* C4: in every output row each of the 13 target-currency fields is the
\* contract-currency field times the exchange rate of the key's metadata.
C4_TargetCurrencyMirror ==
    output_file.exists =>
        \A i \in 1..Len(output_file.rows) :
            LET r == output_file.rows[i] IN
            /\ \A f \in FinancialFields :
                  IsProduct(r.tc[f], r.cc[f], r.info.exchange_rate_to_gc)
            /\ OutputWritten => r.info = Info[r.key]

C4_Witness ==
    /\ OutputWritten
    /\ \E i \in 1..Len(output_file.rows) :
          LET r == output_file.rows[i] IN
          /\ r.info.exchange_rate_to_gc = [num |-> 6, den |-> 5]
          /\ r.cc.year1 = 1000
          /\ r.cc.finance_charges = -50
          /\ r.tc.year1.num = 1200 * r.tc.year1.den
          /\ r.tc.finance_charges.num = -60 * r.tc.finance_charges.den

\* one row: contract C1, activation group A1, period end three months after
\* the report month 2024-01, payment 1000, company currency USD, rate 1.2
Scenario ==
    /\ source_ok /\ dest_ok /\ NoneMissing
    /\ report_year = 2024 /\ report_month = 1
    /\ exchange_rate = [num |-> 6, den |-> 5]
    /\ Len(df) = 1
    /\ df[1]["Contract ID"] = Str("C1")
    /\ df[1]["Activation Group ID"] = Str("A1")
    /\ df[1]["Period End Date"].t = "date"
    /\ df[1]["Period End Date"].v.year = 2024
    /\ df[1]["Period End Date"].v.month = 4
    /\ df[1]["Payment"] = Num(1000)
    /\ df[1]["Company Currency"] = Str("USD")

\* C5: the run over that single row writes exactly one output row, for key
\* C1_A1, with Year 1 = 1000 (contract currency) and 1200 (target currency),
\* Total = 1000 and every other year bucket 0.
C5_EndToEnd ==
    (Scenario /\ pc = "done") =>
        /\ result.success
        /\ output_file.exists
        /\ Len(output_file.rows) = 1
        /\ LET r == output_file.rows[1] IN
           /\ r.key = "C1_A1"
           /\ r.cc.year1 = 1000
           /\ r.tc.year1.num = 1200 * r.tc.year1.den
           /\ r.cc.total = 1000
           /\ \A b \in Buckets \ {"year1"} : r.cc[b] = 0 /\ r.tc[b].num = 0

C5_Witness == Scenario /\ pc = "done" /\ Len(output_file.rows) = 1

\* C6: with a required column missing, process_file returns a failure whose
\* error names every missing column; the aggregator and the output file are
\* left as they were before the call (absent on a first call).
C6_MissingColumnsRejected ==
    (pc = "done" /\ source_ok /\ ~NoneMissing) =>
        /\ result.success = FALSE
        /\ result.error.text = "Missing required columns"
        /\ \A col \in Range(required_columns) :
              col \notin columns => col \in Range(result.error.columns)
        /\ run = 1 => aggregator = None /\ output_file = NoFile /\ idx = 0
        /\ run = 2 => aggregator = prev.aggregator
                        /\ output_file = prev.output_file

C6_Witness ==
    /\ pc = "done" /\ run = 2
    /\ columns = AllColumns \ {"Contract ID", "Company Currency"}
    /\ result.success = FALSE
    /\ result.error.columns = <<"Contract ID", "Company Currency">>
    /\ prev.result.success
    /\ Len(prev.output_file.rows) > 0
    /\ output_file = prev.output_file
    /\ aggregator = prev.aggregator

\* C7: process_file never raises to its caller; it ends with a result, which
\* has success = false and the error message exactly when reading the
\* source, validating the columns or generating the output raised.
C7_NeverRaises ==
    /\ pc # "raised"
    /\ pc = "done" =>
          /\ result # None
          /\ result.success = (source_ok /\ NoneMissing /\ dest_ok)
          /\ ~source_ok => result.error.text = "cannot read the source file"
          /\ (source_ok /\ ~NoneMissing) =>
                result.error.text = "Missing required columns"
          /\ (source_ok /\ NoneMissing /\ ~dest_ok) =>
                result.error.text = "cannot write the output file"

C7_Witness ==
    /\ pc = "done"
    /\ ~dest_ok
    /\ Len(df) > 0
    /\ result.success = FALSE
    /\ result.error.text = "cannot write the output file"

\* the cell of an id column holds an id: neither empty (NaN) nor ""
IdPresent(cell) == cell.t # "nan" /\ cell # Str("")

\* C8: a row whose contract id or activation-group id is empty or missing is
\* discarded: every key of the aggregator comes from an absorbed row in which
\* both ids are present, so such a row creates no key, captures no metadata
\* and is not counted in total_contracts.
C8_MissingIdRowDiscarded ==
    PassRan =>
        \A k \in DOMAIN Info :
            \E j \in 1..(idx - 1) :
                /\ IdPresent(df[j]["Contract ID"])
                /\ IdPresent(df[j]["Activation Group ID"])
                /\ RowKey(j) = k

SameInputs ==
    /\ prev.env.columns = columns
    /\ prev.env.source_ok = source_ok
    /\ prev.env.dest_ok = dest_ok

\* C10: a second call of process_file on the same instance with the same
\* input and parameters ends with the same result, the same aggregated sums,
\* balances and metadata and the same output rows as the first.
C10_SecondRunIdentical ==
    (pc = "done" /\ run = 2 /\ SameInputs) =>
        /\ result = prev.result
        /\ aggregator = prev.aggregator
        /\ output_file = prev.output_file

C10_Witness ==
    /\ pc = "done" /\ run = 2 /\ SameInputs
    /\ result.success
    /\ Len(output_file.rows) > 0
    /\ result = prev.result
    /\ aggregator = prev.aggregator
    /\ output_file = prev.output_file

\* the keys of the output rows, in the order of the rows
OutputKeySeq == [i \in 1..Len(output_file.rows) |-> output_file.rows[i].key]

\* the sum of the seven bucket sums of key k, read off the aggregator
BucketTotal(k) ==
    Get(aggregator.year1, k) + Get(aggregator.year2, k)
        + Get(aggregator.year3, k) + Get(aggregator.year4, k)
        + Get(aggregator.year5, k) + Get(aggregator.year6, k)
        + Get(aggregator.thereafter, k)

KeysSeen ==
    {RowKey(j) : j \in {i \in 1..Len(df) :
        ~Discarded(str(Cell(i, "Contract ID", Str(""))),
                   str(Cell(i, "Activation Group ID", Str(""))))}}

\* the report year and month as "YYYY-MM"
YearMonthText ==
    ToString(report_year) \o "-"
        \o (IF report_month < 10 THEN "0" ELSE "") \o ToString(report_month)

C13_TotalsAndBothLiabilities ==
    OutputWritten =>
        \A i \in 1..Len(output_file.rows) :
            LET r == output_file.rows[i]
                k == r.key
            IN /\ r.cc.total = r.cc.year1 + r.cc.year2 + r.cc.year3 + r.cc.year4
                                 + r.cc.year5 + r.cc.year6 + r.cc.thereafter
               /\ r.cc.total = BucketTotal(k)
               /\ r.cc.total_principal = r.cc.total + r.cc.finance_charges
               /\ r.cc.total_principal
                     = r.cc.total - Get(aggregator.finance_charges, k)
               /\ r.cc.total_principal
                     = get_total_principal_from_payments(aggregator, k)
               /\ r.cc.total_principal_balance
                     = r.cc.st_principal + r.cc.lt_principal
               /\ r.cc.total_principal_balance
                     = get_total_principal_from_balances(aggregator, k)
               /\ r.cc.st_principal = Get(aggregator.st_principal, k)
               /\ r.cc.lt_principal = Get(aggregator.lt_principal, k)

C13_Witness ==
    /\ OutputWritten
    /\ \E i \in 1..Len(output_file.rows) :
          LET r == output_file.rows[i]
          IN /\ r.cc.finance_charges # 0
             /\ r.cc.total_principal_balance # 0
             /\ r.cc.total_principal # r.cc.total_principal_balance

\* the (contract identifier, activation-group identifier) pair of row j
IdPair(j) ==
    <<str(Cell(j, "Contract ID", Str(""))),
      str(Cell(j, "Activation Group ID", Str("")))>>

\* C14: distinct (contract identifier, activation-group identifier) pairs
\* map to distinct aggregation keys: the rows absorbed under one key all
\* carry the same pair, so no two pairs are merged into one ContractState.
C14_DistinctPairsDistinctKeys ==
    PassRan =>
        \A k \in DOMAIN Info :
            \A i \in KeyRows(k), j \in KeyRows(k) : IdPair(i) = IdPair(j)

\* C15: each of the seven bucket sums of every key starts at 0 and is only
\* ever incremented: no row absorbed by the pass makes a bucket sum decrease.
C15_BucketSumsNeverDecrease ==
    [][pc = "rows" =>
          /\ idx = 1 =>
                \A b \in Buckets : \A k \in KeysSeen : Get(aggregator[b], k) = 0
          /\ \A b \in Buckets : \A k \in KeysSeen :
                Get(aggregator'[b], k) >= Get(aggregator[b], k)]_vars

\* C16: every contract/activation group included in the output has total
\* payments greater than 0.
C16_IncludedTotalsPositive ==
    OutputWritten =>
        \A i \in 1..Len(output_file.rows) : output_file.rows[i].cc.total > 0

Max(S) == CHOOSE x \in S : \A y \in S : y <= x

\* the period-end date of row j as parse_date reads it
PeriodEnd(j) == parse_date(Cell(j, "Period End Date", None))

\* the absorbed rows of key k dated in exactly the report year and month
ReportMonthRows(k) ==
    {j \in KeyRows(k) :
        /\ PeriodEnd(j).t = "date"
        /\ PeriodEnd(j).v.year = report_year
        /\ PeriodEnd(j).v.month = report_month}

\* the number in a cell, 0 for a missing or non-numeric one
Amount(j, col) == safe_float(Cell(j, col, Num(0)))

FutureRows(k) ==
    {j \in KeyRows(k) :
        /\ PeriodEnd(j).t = "date"
        /\ PeriodEnd(j).v.year * 12 + PeriodEnd(j).v.month
              > report_year * 12 + report_month}

RECURSIVE SumAbsInterest(_)
SumAbsInterest(S) ==
    IF S = {} THEN 0
    ELSE LET j == CHOOSE x \in S : TRUE
             v == Amount(j, "Interest Paid")
         IN (IF v < 0 THEN -v ELSE v) + SumAbsInterest(S \ {j})

\* C18: after the pass the finance-charge sum of a key is the sum of the
\* absolute values of the interest-paid field over exactly the rows of the
\* key dated strictly after the report year and month; rows dated in or
\* before the report month add nothing.
C18_FinanceChargesOfFutureRows ==
    PassRan =>
        \A k \in DOMAIN Info :
            Get(aggregator.finance_charges, k) = SumAbsInterest(FutureRows(k))

C18_Witness ==
    /\ PassRan
    /\ \E k \in DOMAIN Info :
          /\ \E j \in FutureRows(k) : Amount(j, "Interest Paid") < 0
          /\ \E j \in KeyRows(k) \ FutureRows(k) : Amount(j, "Interest Paid") > 0
          /\ Get(aggregator.finance_charges, k) > 0

\* C19: in every output row 'Less: Finance Charges' is the negation of the
\* key's accumulated finance-charge sum and is never positive, in the
\* contract-currency section and, the exchange rate being non-negative, in
\* the target-currency section.
C19_FinanceChargesNeverPositive ==
    (OutputWritten /\ exchange_rate.num >= 0) =>
        \A i \in 1..Len(output_file.rows) :
            LET r == output_file.rows[i]
            IN /\ r.cc.finance_charges
                     = -Get(aggregator.finance_charges, r.key)
               /\ r.cc.finance_charges <= 0
               /\ r.tc.finance_charges.den > 0
               /\ r.tc.finance_charges.num * exchange_rate.den
                     = r.cc.finance_charges * exchange_rate.num
                          * r.tc.finance_charges.den
               /\ r.tc.finance_charges.num <= 0

C19_Witness ==
    /\ OutputWritten
    /\ \E i \in 1..Len(output_file.rows) :
          /\ output_file.rows[i].cc.finance_charges < 0
          /\ output_file.rows[i].tc.finance_charges.num
                < output_file.rows[i].cc.finance_charges

\* the ten sums and balances of the aggregator
NumericFields == Buckets \cup {"finance_charges", "st_principal", "lt_principal"}

\* row j has both identifiers and no readable period-end date
UndatedRow(j) ==
    /\ IdPresent(Cell(j, "Contract ID", Str("")))
    /\ IdPresent(Cell(j, "Activation Group ID", Str("")))
    /\ PeriodEnd(j).t = "None"

\* C20: a row with a valid key but an absent or unparseable period-end
\* date changes no bucket sum, no principal balance and no finance-charge
\* sum, yet captures the key's metadata when it is the first row of the key.
C20_UndatedRowOnlyCapturesMetadata ==
    [][(pc = "rows" /\ idx <= Len(df) /\ UndatedRow(idx)) =>
          LET k == RowKey(idx) IN
          /\ \A f \in NumericFields : aggregator'[f] = aggregator[f]
          /\ k \in DOMAIN aggregator'.contract_info.info
          /\ k \notin DOMAIN Info =>
                /\ aggregator'.contract_info.info[k].contract_name
                      = Cell(idx, "Contract Name", Str(""))
                /\ aggregator'.contract_info.info[k].target_currency
                      = str(Cell(idx, "Company Currency", Str("")))
                /\ aggregator'.contract_info.info[k].likely_expiration_date
                      = parse_date(Cell(idx, "End Date", None))
          /\ k \in DOMAIN Info =>
                aggregator'.contract_info = aggregator.contract_info]_vars

C20_Witness ==
    /\ pc \in {"rows", "generate"}
    /\ idx > 1
    /\ UndatedRow(idx - 1)
    /\ Amount(idx - 1, "Payment") # 0
    /\ KeyRows(RowKey(idx - 1)) = {idx - 1}
    /\ RowKey(idx - 1) \in DOMAIN Info
    /\ Info[RowKey(idx - 1)].contract_name
          = Cell(idx - 1, "Contract Name", Str(""))
    /\ \A f \in NumericFields : Get(aggregator[f], RowKey(idx - 1)) = 0

\* C21: absorbing a row with key k leaves the bucket sums, finance-charge
\* sum, principal balances and metadata of every other key unchanged.
C21_OtherKeysUnchanged ==
    [][(pc = "rows" /\ idx <= Len(df)) =>
          \A k \in (KeysSeen \cup DOMAIN Info) \ {RowKey(idx)} :
              /\ \A f \in NumericFields :
                    Get(aggregator'[f], k) = Get(aggregator[f], k)
              /\ (k \in DOMAIN aggregator'.contract_info.info)
                    = (k \in DOMAIN Info)
              /\ k \in DOMAIN Info =>
                    aggregator'.contract_info.info[k] = Info[k]]_vars

C21_Witness ==
    /\ pc = "generate"
    /\ idx = 3
    /\ RowKey(1) # RowKey(2)
    /\ {RowKey(1), RowKey(2)} \subseteq DOMAIN Info
    /\ BucketTotal(RowKey(1)) = Amount(1, "Payment")
    /\ BucketTotal(RowKey(1)) # 0
    /\ Get(aggregator.finance_charges, RowKey(1)) # 0
    /\ Get(aggregator.finance_charges, RowKey(2)) # 0
    /\ Get(aggregator.finance_charges, RowKey(1))
          # Get(aggregator.finance_charges, RowKey(2))

\* C22: within one run the exchange rate stored in every key's metadata, and
\* used for the key's target-currency mirror, is the one exchange rate given
\* to the run, whichever row first created the key.
C22_OneRatePerRun ==
    /\ PassRan =>
          \A k \in DOMAIN Info : Info[k].exchange_rate_to_gc = exchange_rate
    /\ OutputWritten =>
          \A i \in 1..Len(output_file.rows) :
              LET r == output_file.rows[i]
              IN /\ r.info.exchange_rate_to_gc = exchange_rate
                 /\ \A f \in FinancialFields :
                       r.tc[f] = [num |-> r.cc[f] * exchange_rate.num,
                                  den |-> exchange_rate.den]

C22_Witness ==
    /\ OutputWritten
    /\ exchange_rate.num # exchange_rate.den
    /\ Len(output_file.rows) = 2
    /\ Min(KeyRows(output_file.rows[2].key)) = 2
    /\ output_file.rows[2].tc.total.num
          = output_file.rows[2].cc.total * exchange_rate.num

\* months from the report month to the period end of row j
MonthsAfterReport(j) ==
    (PeriodEnd(j).v.year * 12 + PeriodEnd(j).v.month)
        - (report_year * 12 + report_month)

\* row j passes the identifier guard and has a readable period-end date
DatedRow(j) ==
    /\ ~Discarded(IdPair(j)[1], IdPair(j)[2])
    /\ PeriodEnd(j).t = "date"

\* C29: a row with a present period-end date falls in exactly one of three
\* cases: dated before the report month it changes no numeric state; dated
\* in the report month it changes only the ST/LT principal balances; dated
\* after it changes only one bucket sum and the finance-charge sum and
\* leaves the balances. Hence during the pass a key has received a bucket
\* addition if and only if it has received a finance-charge addition.
C29_ThreeCasesByPeriod ==
    [][(pc = "rows" /\ idx <= Len(df) /\ DatedRow(idx)) =>
          LET k == RowKey(idx)
              Same(f) == Get(aggregator'[f], k) = Get(aggregator[f], k)
              int == Amount(idx, "Interest Paid")
          IN /\ MonthsAfterReport(idx) < 0 => \A f \in NumericFields : Same(f)
             /\ MonthsAfterReport(idx) = 0 =>
                   /\ \A f \in Buckets \cup {"finance_charges"} : Same(f)
                   /\ Get(aggregator'.st_principal, k)
                         = Amount(idx, "ST Principal Liability Closing Balance")
                   /\ Get(aggregator'.lt_principal, k)
                         = Amount(idx, "Principal Liability LT Closing Balance")
             /\ MonthsAfterReport(idx) > 0 =>
                   /\ \E b \in Buckets :
                         /\ Get(aggregator'[b], k)
                               = Get(aggregator[b], k) + Amount(idx, "Payment")
                         /\ \A c \in Buckets \ {b} : Same(c)
                   /\ Get(aggregator'.finance_charges, k)
                         = Get(aggregator.finance_charges, k)
                              + (IF int < 0 THEN -int ELSE int)
                   /\ Same("st_principal") /\ Same("lt_principal")
             /\ (k \in DOMAIN aggregator'.finance_charges)
                   = (\E b \in Buckets : k \in DOMAIN aggregator'[b])]_vars

C29_Witness ==
    /\ pc = "generate"
    /\ idx = 3
    /\ RowKey(1) = RowKey(2)
    /\ DatedRow(1) /\ MonthsAfterReport(1) = 0
    /\ DatedRow(2) /\ MonthsAfterReport(2) > 0
    /\ Amount(1, "Payment") # 0
    /\ Amount(1, "Interest Paid") # 0
    /\ BucketTotal(RowKey(1)) = Amount(2, "Payment")
    /\ Get(aggregator.st_principal, RowKey(1))
          = Amount(1, "ST Principal Liability Closing Balance")
    /\ Get(aggregator.st_principal, RowKey(1)) # 0

\* C30: at every point of the input pass every key that holds a bucket sum,
\* a finance-charge sum or a principal balance has captured metadata.
C30_AmountsHaveMetadata ==
    pc \in {"rows", "generate", "return"} =>
        \A f \in NumericFields : DOMAIN aggregator[f] \subseteq DOMAIN Info

C30_Witness ==
    /\ pc = "rows"
    /\ idx = 2
    /\ \E k \in DOMAIN Info :
          /\ \E b \in Buckets : Get(aggregator[b], k) # 0
          /\ k \in DOMAIN aggregator.finance_charges
          /\ Info[k].accounting_start_date.t = "None"

NumericColumns ==
    {"Payment", "Interest Paid", "ST Principal Liability Closing Balance",
     "Principal Liability LT Closing Balance"}

\* row j has a gap that makes the pass skip it: an identifier or the
\* period-end date is missing or unreadable
GapRow(j) ==
    \/ ~IdPresent(Cell(j, "Contract ID", Str("")))
    \/ ~IdPresent(Cell(j, "Activation Group ID", Str("")))
    \/ PeriodEnd(j).t = "None"

\* row j has a numeric cell that is missing or no number
NumericGap(j) == \E c \in NumericColumns \cap columns : df[j][c].t # "num"

\* a row with every missing or unreadable numeric cell set to 0
ZeroFilled(row) ==
    [c \in DOMAIN row |->
        IF c \in NumericColumns /\ row[c].t # "num" THEN Num(0) ELSE row[c]]

\* the table without its gap rows, the numeric gaps of the others zero-filled
WithoutGaps ==
    LET keep == {j \in 1..Len(df) : ~GapRow(j)}
        Nth(n) == CHOOSE j \in keep : Cardinality({i \in keep : i < j}) = n - 1
    IN [n \in 1..Cardinality(keep) |-> ZeroFilled(df[Nth(n)])]

\* the pass of _process_rows over the rows i.. of a table
RECURSIVE PassOver(_, _, _)
PassOver(agg, rows, i) ==
    IF i > Len(rows) THEN agg
    ELSE PassOver(ProcessRowBody(agg, columns, rows[i], report_year,
                                 report_month, exchange_rate), rows, i + 1)

RECURSIVE OwnPass(_, _, _)
OwnPass(agg, t, i) ==
    IF i > Len(t.df) THEN agg
    ELSE OwnPass(ProcessRowBody(agg, t.columns, t.df[i], t.report_year,
                                t.report_month, t.exchange_rate), t, i + 1)

OwnAggregator(t) == OwnPass(NewAggregator, t, 1)

\* C23: when several maturity-analysis jobs run as background tasks on the
\* shared processor, what a job reports (sums and output rows in its file,
\* counts in its result) is what its own table and parameters give, whatever
\* the other jobs absorbed.
C23_JobsDoNotInterfere ==
    \A j \in DOMAIN jobs :
        jobs[j].status = "completed" =>
            LET own == OwnAggregator(tasks[j])
            IN /\ jobs[j].result.input_rows = Len(tasks[j].df)
               /\ jobs[j].result.output_rows = Len(ReportRows(own))
               /\ jobs[j].result.total_contracts = Len(own.contract_info.keys)
               /\ jobs[j].result.report_date
                     = ReportDate(tasks[j].report_year, tasks[j].report_month)
               /\ j \in DOMAIN files => files[j].rows = ReportRows(own)

C23_Witness ==
    /\ DOMAIN jobs = JobIds
    /\ \A j \in JobIds : jobs[j].status = "completed" /\ j \in DOMAIN files
    /\ \E i \in JobIds, j \in JobIds :
          /\ files[i].rows # files[j].rows
          /\ jobs[i].result.total_contracts = 1
          /\ jobs[j].result.total_contracts = 2
          /\ jobs[j].completed_at = jobs[i].completed_at

\* C25: the report month is range-validated: no maturity-analysis job is
\* created or processed with a report month outside 1..12; such an upload is
\* answered 400 and creates nothing.
C25_ReportMonthValidated ==
    /\ DOMAIN jobs \subseteq DOMAIN tasks
    /\ \A j \in DOMAIN tasks :
          1 <= tasks[j].report_month /\ tasks[j].report_month <= 12
    /\ response.detail = "Report month must be between 1 and 12" =>
          response.op = "upload" /\ response.code = 400 /\ response.job = ""

C25_Witness ==
    /\ response.detail = "Report month must be between 1 and 12"
    /\ response.code = 400
    /\ DOMAIN tasks = {}
    /\ jobs = EmptyDict

JobStatuses == {"pending", "processing", "completed", "failed"}

StatusMoves ==
    {<<"pending", "processing">>, <<"processing", "completed">>,
     <<"processing", "failed">>}

\* C26: a job's status is always one of pending, processing, completed,
\* failed; it only moves pending -> processing -> completed or failed; it is
\* completed exactly when the processor's result has success = true and
\* failed otherwise; once completed or failed it never changes again; and
\* completed_at is set in both terminal states.
C26_JobStatusLifecycle ==
    [][\A j \in DOMAIN jobs' :
          LET new == jobs'[j] IN
          /\ new.status \in JobStatuses
          /\ j \notin DOMAIN jobs => new.status = "pending"
          /\ j \in DOMAIN jobs =>
                \/ new.status = jobs[j].status
                \/ <<jobs[j].status, new.status>> \in StatusMoves
          /\ (j \in DOMAIN jobs /\ jobs[j].status \in {"completed", "failed"})
                => new = jobs[j]
          /\ new.status = "completed" =>
                new.result.success /\ new.completed_at # NoTime
          /\ new.status = "failed" =>
                ~new.result.success /\ new.completed_at # NoTime
          /\ new.status \in {"pending", "processing"} =>
                new.result = None /\ new.completed_at = NoTime]_vars

C26_Witness ==
    /\ DOMAIN jobs = JobIds
    /\ \E i \in JobIds, j \in JobIds :
          /\ jobs[i].status = "completed" /\ jobs[i].result.success
          /\ jobs[j].status = "failed" /\ ~jobs[j].result.success
          /\ jobs[j].completed_at > jobs[i].completed_at
          /\ jobs[i].completed_at > jobs[i].created_at

\* C27: the download endpoint returns a file only for a job that exists and
\* whose status is completed: an unknown job id gives 404, a job that is
\* pending, processing or failed gives 400, so no output is served before
\* the job's processing has finished successfully.
C27_DownloadOnlyCompleted ==
    [][(response' # response /\ response'.op = "download") =>
          LET j == response'.job
              code == response'.code
          IN /\ j \notin DOMAIN jobs => code = 404
             /\ (j \in DOMAIN jobs /\ jobs[j].status # "completed")
                   => code = 400
             /\ code = 200 =>
                   /\ j \in DOMAIN jobs
                   /\ jobs[j].status = "completed"
                   /\ jobs[j].result.success
                   /\ tasks[j].pc = "done"
                   /\ j \in DOMAIN files]_vars

C27_Witness ==
    /\ response.op = "download"
    /\ response.code = 200
    /\ response.job \in DOMAIN jobs
    /\ jobs[response.job].status = "completed"
    /\ \E other \in DOMAIN jobs : jobs[other].status = "failed"

\* the job ended more than one hour before the instant t
EndedOverAnHourAgo(job, t) ==
    job.completed_at # NoTime /\ t - job.completed_at > 3600

\* C28: after a call of the manual cleanup endpoint no job whose
\* completed_at lies more than 1 hour in the past remains in the job table,
\* and every other job is kept.
C28_CleanupRemovesOldJobs ==
    [][CleanupFiles =>
          \A j \in DOMAIN jobs :
              IF EndedOverAnHourAgo(jobs[j], now)
              THEN j \notin DOMAIN jobs'
              ELSE j \in DOMAIN jobs' /\ jobs'[j] = jobs[j]]_vars

====
